---- MODULE Spec2Model ----
(***************************************************************************)
(* Client-side session / progress tracking of the ARQV30 analysis page.    *)
(*                                                                         *)
(* Two trackers live side by side in src/src/static/js/analysis.js:        *)
(*   - class ModernAnalysisSystem (fields currentSessionId,                *)
(*     progressInterval, isPaused; localStorage key currentSessionId),     *)
(*     polling with setInterval;  its actions carry the prefix MAS_.       *)
(*   - the module-level functions startAnalysis / continueAnalysis /       *)
(*     checkAnalysisStatus / pollProgress around currentAnalysisId,        *)
(*     isAnalysisRunning and the AnalysisPersistence store, polling with   *)
(*     a setTimeout chain.                                                 *)
(* src/unnamed/part_000 is the session manager: the selection of a saved   *)
(* session and of the step to continue from (selectSession, selectStep,    *)
(* canContinueFromStep).                                                   *)
(*                                                                         *)
(* JavaScript is single threaded: a handler runs to its next await, so an  *)
(* async handler is one action up to its fetch (the request is put in net) *)
(* and one action for its continuation (name ending in _then), taken when  *)
(* the response is delivered.  The backend is the environment: it answers  *)
(* a request from its state at the moment the request is sent, and the     *)
(* answer travels for an arbitrary time, so answers can overtake each      *)
(* other.                                                                  *)
(***************************************************************************)
EXTENDS Integers, FiniteSets, Sequences, Bags, TLC

\* ---------------------------------------------------------------- bounds
SessionOrder == <<"s1", "s2">>   \* session ids, in the order the backend hands them out
Sessions     == {SessionOrder[k] : k \in 1..Len(SessionOrder)}
MaxTimers   == 2              \* setInterval handles created per run
MaxInflight == 2              \* fetches outstanding at one time
MaxCommands == 1              \* of them, fetches of user commands (submit, pause, ...)
MaxEvents   == 2              \* the event counters saturate here
MaxPollTimers == 2            \* pending setTimeout(pollProgress) callbacks
Contexts    == {"c1", "c2"}   \* contents of the analysis form

Steps == 1..3                 \* the steps of the workflow
NoStep == 0                   \* selectedStep = null

NULL == "null"
\* this.progressInterval = null: no handle (setInterval handles are positive)
NoTimer == 0

VARIABLES
    \* --- backend (environment)
    srv,                \* srv[s]: "none" | "running" | "paused" | "completed" | "error" | "deleted"
    srvPct,             \* srvPct[s]: percentage the backend reports for s
    \* --- browser
    net,                \* the outstanding fetches (a bag of requests with their answers)
    lsCurrentSessionId, \* localStorage 'currentSessionId' (the last-active marker)
    \* --- ModernAnalysisSystem
    currentSessionId,   \* this.currentSessionId
    progressInterval,   \* this.progressInterval: a setInterval handle or NoTimer
    isPaused,           \* this.isPaused
    sessions,           \* this.sessions: the ids of the session list last loaded
    timers,             \* setInterval handles that have not been cleared
    progressFill,       \* .progress-fill / .progress-percentage: [pct, of]
                        \*   of = session the shown value was fetched for (NULL: a reset)
    notification,       \* what the last client step passed to showNotification, or NoNote
    consoleError,       \* what the last client step wrote with console.error, or NULL
    completedShown,     \* completedShown[s]: 'Análise concluída' notifications shown on
                        \*   an answer fetched for s, so far (saturates at MaxEvents)
    \* --- module-level tracker (startAnalysis / pollProgress / AnalysisPersistence)
    currentAnalysisId,  \* let currentAnalysisId
    isAnalysisRunning,  \* let isAnalysisRunning
    savedSessions,      \* let savedSessions: key -> snapshot, Absent when the key is not in the Map
    lsAnalyses,         \* localStorage 'arqv30_analyses', same shape
    storage,            \* localStorage itself: "ok" | "corrupt" (the value under the key
                        \*   is not the JSON of a Map) | "unavailable" (every access throws)
    autoSaveInterval,   \* let autoSaveInterval: TRUE while the 30 s auto-save interval is armed
    pollTimers,         \* pending setTimeout(pollProgress, 3000) callbacks
    progressBar,        \* .progress-bar / .progress-text: [pct, of], as progressFill
    resultsShown,       \* session whose results showResults put on the page, or NULL
    form,               \* what getFormData() returns: the values in the analysis form
    \* --- session manager (src/unnamed/part_000)
    srvSteps,           \* srvSteps[s]: metadata.completed_steps the backend keeps for s
    selectedSessionId,  \* let selectedSessionId
    selectedStep,       \* let selectedStep: a step, or NoStep for null
    stepDisabled,       \* stepDisabled[k]: the disabled flag of the button [data-step=k]
    continueDisabled,   \* the disabled flag of #continueBtn, which calls continueFromStep
    smCurrentSessionId, \* the global currentSessionId that part_000 assigns
    stepStarted,        \* [sid, step]: the step startStep1/2/3 was last called for, and
                        \*   currentSessionId at that call
    stepChosenFor       \* history: selectedSessionId when selectStep last set selectedStep

envVars  == <<srv, srvPct>>
masState == <<lsCurrentSessionId, currentSessionId, progressInterval, isPaused,
              timers, progressFill, completedShown, sessions>>
gState   == <<currentAnalysisId, isAnalysisRunning, savedSessions, lsAnalyses, storage,
              autoSaveInterval, pollTimers, progressBar, resultsShown, form>>
smState  == <<srvSteps, selectedSessionId, selectedStep, stepDisabled,
              continueDisabled, smCurrentSessionId, stepStarted, stepChosenFor>>
vars     == <<srv, srvPct, net, notification, consoleError, lsCurrentSessionId, currentSessionId,
              progressInterval, isPaused, timers, progressFill, completedShown,
              sessions, currentAnalysisId, isAnalysisRunning, savedSessions, lsAnalyses, storage,
              autoSaveInterval, pollTimers, progressBar, resultsShown, form,
              srvSteps, selectedSessionId, selectedStep, stepDisabled,
              continueDisabled, smCurrentSessionId, stepStarted, stepChosenFor>>

\* ------------------------------------------------------------ the network
\* net is the bag of outstanding fetches: two requests with the same answer
\* are two copies of one element.
Outstanding == BagToSet(net)
HasFree     == BagCardinality(net) < MaxInflight

\* fetch(...): the request leaves with the answer the backend gives it.
Send(r)   == net (+) SetToBag({r})
\* the awaited response has been handed to the continuation
Settle(r) == net (-) SetToBag({r})
Req(o, s, a, p) == [op |-> o, sid |-> s, res |-> a, pct |-> p, ctx |-> NULL, list |-> {}, steps |-> {}]
ReqCtx(o, s, a, p, c) == [op |-> o, sid |-> s, res |-> a, pct |-> p, ctx |-> c, list |-> {}, steps |-> {}]
\* a request for the session list, answered with the ids in ids
ReqList(a, ids) ==
    [op |-> "M.list", sid |-> NULL, res |-> a, pct |-> 0, ctx |-> NULL, list |-> ids,
     steps |-> {}]
\* a request for the data of session s, answered with its completed steps
ReqLoad(s, a, st) ==
    [op |-> "S.load", sid |-> s, res |-> a, pct |-> 0, ctx |-> NULL, list |-> {},
     steps |-> st]

\* The user waits for the answer to a command before the next command, up to
\* MaxCommands commands at a time; polls and the restore's status check are not
\* commands.
Commands == {"M.submit", "M.pause", "M.resume", "M.continue", "M.delete",
             "M.clear", "M.clear2", "G.submit", "G.status"}
CommandsOut == {q \in Outstanding : q.op \in Commands}
CanCommand ==
    /\ HasFree
    /\ BagCardinality([q \in CommandsOut |-> net[q]]) < MaxCommands

Bump(f, s) == [f EXCEPT ![s] = IF @ < MaxEvents THEN @ + 1 ELSE @]

\* ------------------------------------------------------------ the backend
\* GET /api/progress/{id}: {success, percentage, completed} or {success:false, error};
\* "fail" is a rejected fetch or an unparsable body.
ProgressReplies(s) ==
    {"fail"} \cup
    (CASE srv[s] \in {"running", "paused"} -> {"ok"}
       [] srv[s] = "completed"             -> {"done"}
       [] OTHER                            -> {"err"})

\* POST /api/sessions/{id}/pause
PauseReplies(s)  == {"fail", IF srv[s] = "running" THEN "ok" ELSE "err"}
\* POST /api/sessions/{id}/resume: a paused session is resumed; for a session
\* that is already running the gateway may answer success (nothing to do) or
\* refuse.
ResumeReplies(s) ==
    {"fail"} \cup
    (CASE srv[s] = "paused"  -> {"ok"}
       [] srv[s] = "running" -> {"ok", "err"}
       [] OTHER              -> {"err"})
\* POST /api/sessions/{id}/continue
ContinueReplies(s) ==
    {"fail", IF srv[s] \in {"paused", "error", "running"} THEN "ok" ELSE "err"}
\* GET /api/sessions/{id}/status
StatusReplies(s) ==
    {"fail", IF srv[s] \in {"none", "deleted"} THEN "err" ELSE srv[s]}
\* DELETE /api/sessions/{id}: the gateway deletes a session it has, or refuses
DeleteReplies(s) ==
    {"fail", "err"} \cup (IF srv[s] \in {"none", "deleted"} THEN {} ELSE {"ok"})

\* POST /api/progress/cleanup and POST /api/user/clear_sessions: "http" is a
\* response whose ok is false, "err" a body with success false, "fail" a
\* rejected fetch or an unparsable body.
ClearReplies == {"ok", "err", "http", "fail"}
\* the backend after a cleanup with force: no session is left
Cleaned == [s \in Sessions |-> IF srv[s] = "none" THEN "none" ELSE "deleted"]

\* GET /api/progress/sessions (or /api/user/sessions): the sessions the backend has
Listed == {s \in Sessions : srv[s] \notin {"none", "deleted"}}

Unborn == {k \in 1..Len(SessionOrder) : srv[SessionOrder[k]] = "none"}
\* the id the backend assigns to the next job: ids are never reused
FreshId == SessionOrder[CHOOSE k \in Unborn : \A j \in Unborn : k <= j]

\* The job makes progress on its own.
SrvAdvance(s) ==
    /\ srv[s] = "running"
    /\ srvPct[s] = 0
    /\ srvPct' = [srvPct EXCEPT ![s] = 50]
    /\ UNCHANGED <<srv, net, notification, consoleError, masState, gState>>
    /\ UNCHANGED smState

SrvComplete(s) ==
    /\ srv[s] = "running"
    /\ srv' = [srv EXCEPT ![s] = "completed"]
    /\ srvPct' = [srvPct EXCEPT ![s] = 100]
    /\ UNCHANGED <<net, notification, consoleError, masState, gState>>
    /\ UNCHANGED smState

SrvFail(s) ==
    /\ srv[s] = "running"
    /\ srv' = [srv EXCEPT ![s] = "error"]
    /\ UNCHANGED <<srvPct, net, notification, consoleError, masState, gState>>
    /\ UNCHANGED smState

\* ------------------------------------------------- ModernAnalysisSystem
\* setInterval returns a handle that is not in use.  Handles are only compared
\* for identity, and a cleared handle is dropped by the code in the same step,
\* so a new handle is named by the smallest number not in use.
CanArm   == Cardinality(timers) < MaxTimers
NewTimer == CHOOSE t \in 1..MaxTimers : t \notin timers /\ \A u \in 1..MaxTimers : u \notin timers => t <= u

\* A startProgressMonitoring that arms nothing.
MAS_startProgressMonitoring_never(cs) == UNCHANGED <<progressInterval, timers>>

\* startProgressMonitoring(): arms a new interval and stores its handle; the
\* handle stored before is overwritten, not cleared.
MAS_startProgressMonitoring(cs) ==
    IF cs = NULL
    THEN UNCHANGED <<progressInterval, timers>>
    ELSE /\ progressInterval' = NewTimer
         /\ timers' = timers \cup {NewTimer}

\* A stop that, finding no stored handle, clears every interval it can find.
MAS_stopProgressMonitoring_sweeps ==
    IF progressInterval # NoTimer
    THEN /\ timers' = timers \ {progressInterval}
         /\ progressInterval' = NoTimer
    ELSE /\ timers' = {}
         /\ progressInterval' = NoTimer

\* stopProgressMonitoring(): clears the interval whose handle is stored.
MAS_stopProgressMonitoring ==
    IF progressInterval # NoTimer
    THEN /\ timers' = timers \ {progressInterval}
         /\ progressInterval' = NoTimer
    ELSE UNCHANGED <<progressInterval, timers>>

\* updateProgress(percentage, ...)
MAS_updateProgress(pct, of) == progressFill' = [pct |-> pct, of |-> of]

\* showNotification(message, type)
NoNote == [type |-> "none", msg |-> "none"]
MAS_showNotification(type, msg) == notification' = [type |-> type, msg |-> msg]
\* console.error(msg); NoLog: the step writes no error to the console
Log(msg) == consoleError' = msg
NoLog    == consoleError' = NULL
\* the step shows no notification and logs no error
Silent == notification' = NoNote /\ NoLog

\* startAnalysis(), up to the fetch of /api/execute_complete_analysis.
MAS_startAnalysis ==
    /\ UNCHANGED <<gState, sessions>>
    /\ CanCommand
    /\ MAS_updateProgress(0, NULL)
    /\ Silent
    /\ \/ /\ Unborn # {}
          /\ net' = Send(Req("M.submit", FreshId, "ok", 0))
          /\ srv' = [srv EXCEPT ![FreshId] = "running"]
          /\ UNCHANGED srvPct
       \/ /\ net' = Send(Req("M.submit", NULL, "fail", 0))
          /\ UNCHANGED envVars
    /\ UNCHANGED <<lsCurrentSessionId, currentSessionId, progressInterval,
                   isPaused, timers, completedShown>>
    /\ UNCHANGED smState

\* startAnalysis(), from the response on.
MAS_startAnalysis_then(r) ==
    /\ UNCHANGED <<gState, sessions>>
    /\ r.op = "M.submit"
    /\ net' = Settle(r)
    /\ IF r.res = "ok"
       THEN /\ CanArm
            /\ currentSessionId' = r.sid
            /\ MAS_showNotification("success", "iniciada")
            /\ NoLog
            /\ lsCurrentSessionId' = r.sid
            /\ MAS_startProgressMonitoring(r.sid)
       ELSE /\ MAS_showNotification("error", "erro na analise")
            /\ Log("erro na analise")
            /\ UNCHANGED <<currentSessionId, lsCurrentSessionId, progressInterval,
                           timers>>
    /\ UNCHANGED <<envVars, isPaused, progressFill, completedShown>>
    /\ UNCHANGED smState

\* The setInterval callback, up to its fetch of /api/progress/{currentSessionId}.
MAS_tick(t) ==
    /\ UNCHANGED <<gState, sessions>>
    /\ t \in timers
    /\ HasFree
    /\ \E a \in ProgressReplies(currentSessionId) :
          net' = Send(Req("M.progress", currentSessionId, a, srvPct[currentSessionId]))
    /\ Silent
    /\ UNCHANGED <<envVars, lsCurrentSessionId, currentSessionId, progressInterval,
                   isPaused, timers, progressFill, completedShown>>
    /\ UNCHANGED smState

\* A catch that gives up on the first failure: it logs and clears the interval.
MAS_tick_catch_stops ==
    /\ notification' = NoNote
    /\ Log("erro no monitoramento")
    /\ MAS_stopProgressMonitoring
    /\ UNCHANGED <<progressFill, completedShown, lsCurrentSessionId>>

\* loadSavedSessions() of the class, up to its fetch; base is the fetches
\* outstanding without it.  The two endpoints tried in turn are one request.
MAS_loadSavedSessions_fetch(base) ==
    \/ net' = base (+) SetToBag({ReqList("ok", Listed)})
    \/ net' = base (+) SetToBag({ReqList("fail", {})})

\* The catch of the setInterval callback: console.error and nothing else.
MAS_tick_catch ==
    /\ notification' = NoNote
    /\ Log("erro no monitoramento")
    /\ UNCHANGED <<progressInterval, timers, progressFill, completedShown,
                   lsCurrentSessionId>>

\* The setInterval callback, from the response on.
MAS_tick_then(r) ==
    /\ UNCHANGED <<gState, sessions>>
    /\ r.op = "M.progress"
    /\ IF r.res = "done" THEN MAS_loadSavedSessions_fetch(Settle(r))
                         ELSE net' = Settle(r)
    /\ CASE r.res = "ok" ->
              /\ MAS_updateProgress(r.pct, r.sid)
              /\ Silent
              /\ UNCHANGED <<progressInterval, timers, completedShown,
                             lsCurrentSessionId>>
         [] r.res = "done" ->
              /\ MAS_updateProgress(r.pct, r.sid)
              /\ MAS_stopProgressMonitoring
              /\ MAS_showNotification("success", "concluida")
              /\ NoLog
              /\ completedShown' = Bump(completedShown, r.sid)
              /\ lsCurrentSessionId' = NULL
         [] r.res = "err" ->
              /\ MAS_stopProgressMonitoring
              /\ MAS_showNotification("error", "erro")
              /\ NoLog
              /\ UNCHANGED <<progressFill, completedShown, lsCurrentSessionId>>
         [] OTHER -> MAS_tick_catch
    /\ UNCHANGED <<envVars, currentSessionId, isPaused>>
    /\ UNCHANGED smState

\* pauseSession(), up to the fetch.
MAS_pauseSession ==
    /\ UNCHANGED smState
    /\ IF currentSessionId = NULL
       THEN /\ UNCHANGED <<gState, sessions>>
            /\ MAS_showNotification("warning", "nenhuma sessao")
            /\ NoLog
            /\ UNCHANGED <<envVars, net, lsCurrentSessionId, currentSessionId,
                           progressInterval, isPaused, timers, progressFill,
                           completedShown>>
       ELSE /\ UNCHANGED <<gState, sessions>>
            /\ CanCommand
            /\ \E a \in PauseReplies(currentSessionId) :
                  /\ net' = Send(Req("M.pause", currentSessionId, a, 0))
                  /\ srv' = IF a = "ok" THEN [srv EXCEPT ![currentSessionId] = "paused"]
                                        ELSE srv
            /\ Silent
            /\ UNCHANGED <<srvPct, lsCurrentSessionId, currentSessionId,
                           progressInterval, isPaused, timers, progressFill,
                           completedShown>>

\* A catch of pauseSession that treats the session as paused all the same.
MAS_pauseSession_catch_flips ==
    /\ MAS_showNotification("error", "erro ao pausar")
    /\ NoLog
    /\ isPaused' = TRUE
    /\ MAS_stopProgressMonitoring

\* The catch of pauseSession: the error is shown and nothing else.
MAS_pauseSession_catch ==
    /\ MAS_showNotification("error", "erro ao pausar")
    /\ NoLog
    /\ UNCHANGED <<isPaused, progressInterval, timers>>

\* pauseSession(), from the response on.
MAS_pauseSession_then(r) ==
    /\ UNCHANGED <<gState, sessions>>
    /\ r.op = "M.pause"
    /\ net' = Settle(r)
    /\ IF r.res = "ok"
       THEN /\ isPaused' = TRUE
            /\ MAS_stopProgressMonitoring
            /\ MAS_showNotification("success", "pausada")
            /\ NoLog
       ELSE MAS_pauseSession_catch
    /\ UNCHANGED <<envVars, lsCurrentSessionId, currentSessionId, progressFill,
                   completedShown>>
    /\ UNCHANGED smState

\* resumeSession(), up to the fetch.
MAS_resumeSession ==
    /\ UNCHANGED smState
    /\ IF currentSessionId = NULL
       THEN /\ UNCHANGED <<gState, sessions>>
            /\ MAS_showNotification("warning", "nenhuma sessao")
            /\ NoLog
            /\ UNCHANGED <<envVars, net, lsCurrentSessionId, currentSessionId,
                           progressInterval, isPaused, timers, progressFill,
                           completedShown>>
       ELSE /\ UNCHANGED <<gState, sessions>>
            /\ CanCommand
            /\ \E a \in ResumeReplies(currentSessionId) :
                  /\ net' = Send(Req("M.resume", currentSessionId, a, 0))
                  /\ srv' = IF a = "ok" THEN [srv EXCEPT ![currentSessionId] = "running"]
                                        ELSE srv
            /\ Silent
            /\ UNCHANGED <<srvPct, lsCurrentSessionId, currentSessionId,
                           progressInterval, isPaused, timers, progressFill,
                           completedShown>>

\* resumeSession(), from the response on.
MAS_resumeSession_then(r) ==
    /\ UNCHANGED <<gState, sessions>>
    /\ r.op = "M.resume"
    /\ net' = Settle(r)
    /\ IF r.res = "ok"
       THEN /\ CanArm
            /\ isPaused' = FALSE
            /\ MAS_startProgressMonitoring(currentSessionId)
            /\ MAS_showNotification("success", "resumida")
            /\ NoLog
       ELSE /\ MAS_showNotification("error", "erro ao resumir")
            /\ NoLog
            /\ UNCHANGED <<isPaused, progressInterval, timers>>
    /\ UNCHANGED <<envVars, lsCurrentSessionId, currentSessionId, progressFill,
                   completedShown>>
    /\ UNCHANGED smState

\* continueSession(sessionId), up to the fetch; the Continue button is offered
\* for a session of the list the backend returned.
MAS_continueSession(s) ==
    /\ UNCHANGED <<gState, sessions>>
    /\ srv[s] # "none"
    /\ CanCommand
    /\ MAS_updateProgress(0, NULL)
    /\ Silent
    /\ \E a \in ContinueReplies(s) :
          /\ net' = Send(Req("M.continue", s, a, 0))
          /\ srv' = IF a = "ok" THEN [srv EXCEPT ![s] = "running"] ELSE srv
    /\ UNCHANGED <<srvPct, lsCurrentSessionId, currentSessionId, progressInterval,
                   isPaused, timers, completedShown>>
    /\ UNCHANGED smState

\* continueSession(sessionId), from the response on.
MAS_continueSession_then(r) ==
    /\ UNCHANGED <<gState, sessions>>
    /\ r.op = "M.continue"
    /\ net' = Settle(r)
    /\ IF r.res = "ok"
       THEN /\ CanArm
            /\ currentSessionId' = r.sid
            /\ lsCurrentSessionId' = r.sid
            /\ MAS_showNotification("success", "continuada")
            /\ NoLog
            /\ MAS_startProgressMonitoring(r.sid)
       ELSE /\ MAS_showNotification("error", "erro ao continuar")
            /\ NoLog
            /\ UNCHANGED <<currentSessionId, lsCurrentSessionId, progressInterval,
                           timers>>
    /\ UNCHANGED <<envVars, isPaused, progressFill, completedShown>>
    /\ UNCHANGED smState

\* checkSessionStatus(sessionId), from the response on (restoreLastSession sent
\* the request while the system was constructed).
MAS_checkSessionStatus_then(r) ==
    /\ UNCHANGED <<gState, sessions>>
    /\ r.op = "M.status"
    /\ net' = Settle(r)
    /\ CASE r.res = "running" ->
              /\ CanArm
              /\ MAS_startProgressMonitoring(currentSessionId)
              /\ MAS_showNotification("info", "restaurada")
              /\ NoLog
              /\ UNCHANGED lsCurrentSessionId
         [] r.res = "paused" ->
              /\ MAS_showNotification("info", "pausada")
              /\ NoLog
              /\ UNCHANGED <<lsCurrentSessionId, progressInterval, timers>>
         [] r.res = "completed" ->
              /\ lsCurrentSessionId' = NULL
              /\ MAS_showNotification("success", "ultima concluida")
              /\ NoLog
              /\ UNCHANGED <<progressInterval, timers>>
         [] r.res = "error" ->
              /\ MAS_showNotification("warning", "ultima teve erro")
              /\ NoLog
              /\ UNCHANGED <<lsCurrentSessionId, progressInterval, timers>>
         [] r.res = "fail" ->
              /\ lsCurrentSessionId' = NULL
              /\ notification' = NoNote
              /\ Log("erro ao verificar status da sessao")
              /\ UNCHANGED <<progressInterval, timers>>
         [] OTHER ->
              /\ Silent
              /\ UNCHANGED <<lsCurrentSessionId, progressInterval, timers>>
    /\ UNCHANGED <<envVars, currentSessionId, isPaused, progressFill,
                   completedShown>>
    /\ UNCHANGED smState

\* deleteSession(sessionId) of the class, up to its fetch; the button is offered
\* for a session of the list the backend returned.
MAS_deleteSession(s) ==
    /\ UNCHANGED gState
    /\ srv[s] # "none"
    /\ CanCommand
    /\ \E a \in DeleteReplies(s) :
          /\ net' = Send(Req("M.delete", s, a, 0))
          /\ srv' = IF a = "ok" THEN [srv EXCEPT ![s] = "deleted"] ELSE srv
    /\ Silent
    /\ UNCHANGED <<srvPct, masState>>
    /\ UNCHANGED smState

\* deleteSession(sessionId) of the class, from the response on.
MAS_deleteSession_then(r) ==
    /\ UNCHANGED gState
    /\ r.op = "M.delete"
    /\ net' = Settle(r)
    /\ IF r.res = "ok"
       THEN /\ MAS_showNotification("success", "sessao excluida")
            /\ sessions' = sessions \ {r.sid}
       ELSE /\ MAS_showNotification("error", "erro ao excluir")
            /\ UNCHANGED sessions
    /\ NoLog
    /\ UNCHANGED <<envVars, lsCurrentSessionId, currentSessionId, progressInterval,
                   isPaused, timers, progressFill, completedShown>>
    /\ UNCHANGED smState

\* The refresh button: loadSavedSessions() of the class, up to its fetch.
MAS_loadSavedSessions ==
    /\ HasFree
    /\ MAS_loadSavedSessions_fetch(net)
    /\ Silent
    /\ UNCHANGED <<envVars, masState, gState>>
    /\ UNCHANGED smState

\* loadSavedSessions() of the class, from the response on.
MAS_loadSavedSessions_then(r) ==
    /\ r.op = "M.list"
    /\ net' = Settle(r)
    /\ IF r.res = "ok"
       THEN /\ sessions' = r.list
            /\ Silent
       ELSE /\ MAS_showNotification("warning", "erro ao carregar sessoes")
            /\ Log("erro ao carregar sessoes")
            /\ UNCHANGED sessions
    /\ UNCHANGED <<envVars, gState, lsCurrentSessionId, currentSessionId,
                   progressInterval, isPaused, timers, progressFill, completedShown>>
    /\ UNCHANGED smState

\* ------------------------------------------------ AnalysisPersistence
Keys   == Sessions \cup {NULL}      \* Map keys: a session id, or null
Absent == [status |-> "absent", progress |-> 0, results |-> NULL, ctx |-> NULL]
Snapshot(st, pr, rs, c) == [status |-> st, progress |-> pr, results |-> rs, ctx |-> c]

\* A saveSessions that writes only the snapshots of analyses that still run.
saveSessions_runningOnly(map) ==
    IF storage = "unavailable"
    THEN UNCHANGED <<lsAnalyses, storage>>
    ELSE /\ lsAnalyses' = [k \in Keys |-> IF map[k].status = "completed"
                                            THEN Absent ELSE map[k]]
         /\ storage' = "ok"

\* saveSessions(): the whole Map is written to localStorage, which replaces
\* whatever was under the key; a setItem that throws is caught and the Map
\* stays as it is.
saveSessions(map) ==
    IF storage = "unavailable"
    THEN UNCHANGED <<lsAnalyses, storage>>
    ELSE /\ lsAnalyses' = map
         /\ storage' = "ok"

\* A saveSession that writes the Map entry to localStorage and forgets the Map.
saveSession_storageOnly(k, data) ==
    /\ saveSessions([savedSessions EXCEPT ![k] = data])
    /\ UNCHANGED savedSessions

\* A saveSession that keeps the snapshot an id already has.
saveSession_firstWins(k, data) ==
    /\ savedSessions' = IF savedSessions[k] = Absent
                        THEN [savedSessions EXCEPT ![k] = data]
                        ELSE savedSessions
    /\ saveSessions(savedSessions')

\* saveSession(sessionId, data): savedSessions.set(sessionId, {...data}), then
\* saveSessions().  (Every caller passes a number as data.progress, so that
\* data.progress || 0 is data.progress.)
saveSession(k, data) ==
    /\ savedSessions' = [savedSessions EXCEPT ![k] = data]
    /\ saveSessions([savedSessions EXCEPT ![k] = data])

\* getSession(sessionId)
getSession(k) == savedSessions[k]

\* deleteSession(sessionId): savedSessions.delete(sessionId), then saveSessions()
deleteSession(k) ==
    /\ savedSessions' = [savedSessions EXCEPT ![k] = Absent]
    /\ saveSessions([savedSessions EXCEPT ![k] = Absent])

\* A load that trusts whatever localStorage holds.
loadSavedSessions_trusting == lsAnalyses

\* loadSavedSessions() of AnalysisPersistence, the Map it leaves: the stored
\* Map, or the empty Map when getItem or JSON.parse throws (the catch logs and
\* assigns new Map()).
loadSavedSessions ==
    IF storage = "ok" THEN lsAnalyses ELSE [k \in Keys |-> Absent]

\* ------------------------------------- ModernAnalysisSystem: bulk clear
\* One of clearAllSessions' two fetches; a cleanup the backend accepts empties it.
MAS_clearAllSessions_fetch(op, base) ==
    \E a \in ClearReplies :
       /\ net' = base (+) SetToBag({Req(op, NULL, a, 0)})
       /\ srv' = IF a = "ok" THEN Cleaned ELSE srv

\* clearAllSessions(), confirmed by the user, up to its first fetch.
MAS_clearAllSessions ==
    /\ CanCommand
    /\ MAS_clearAllSessions_fetch("M.clear", net)
    /\ Silent
    /\ UNCHANGED <<srvPct, masState, gState>>
    /\ UNCHANGED smState

\* A catch block that also empties the list and the storage.
MAS_clearAllSessions_catch_clears ==
    /\ Log("erro ao limpar sessoes")
    /\ MAS_showNotification("error", "erro ao limpar sessoes")
    /\ sessions' = {}
    /\ lsCurrentSessionId' = NULL
    /\ lsAnalyses' = [k \in Keys |-> Absent]
    /\ UNCHANGED storage

\* clearAllSessions()'s catch block
MAS_clearAllSessions_catch ==
    /\ Log("erro ao limpar sessoes")
    /\ MAS_showNotification("error", "erro ao limpar sessoes")
    /\ UNCHANGED <<sessions, lsCurrentSessionId, lsAnalyses, storage>>

\* clearAllSessions(), from a response on: the fallback fetch when the first
\* response is not ok; on success the list is emptied and the localStorage keys
\* currentSessionId and arqv30_analyses are removed (the Map savedSessions and
\* this.currentSessionId are not touched); anything else goes to the catch.
MAS_clearAllSessions_then(r) ==
    /\ r.op \in {"M.clear", "M.clear2"}
    /\ CASE r.op = "M.clear" /\ r.res = "http" ->
              /\ MAS_clearAllSessions_fetch("M.clear2", Settle(r))
              /\ Silent
              /\ UNCHANGED <<sessions, lsCurrentSessionId, lsAnalyses, storage>>
         [] r.res = "ok" ->
              /\ net' = Settle(r)
              /\ MAS_showNotification("success", "sessoes excluidas")
              /\ NoLog
              /\ sessions' = {}
              /\ lsCurrentSessionId' = NULL
              /\ lsAnalyses' = [k \in Keys |-> Absent]
              /\ UNCHANGED storage
              /\ UNCHANGED srv
         [] OTHER ->
              /\ net' = Settle(r)
              /\ MAS_clearAllSessions_catch
              /\ UNCHANGED srv
    /\ UNCHANGED <<srvPct, currentSessionId, progressInterval, isPaused, timers,
                   progressFill, completedShown, currentAnalysisId,
                   isAnalysisRunning, savedSessions, autoSaveInterval, pollTimers,
                   progressBar, resultsShown, form>>
    /\ UNCHANGED smState

\* ------------------------------------------------ module-level tracker
\* updateProgressUI(percentage, message)
updateProgressUI(pct, of) == progressBar' = [pct |-> pct, of |-> of]

\* showResults(results)
showResults(rs) == resultsShown' = rs

\* GET /api/analysis_status/{id}
AnalysisStatusReplies(s) ==
    {"fail", IF srv[s] \in {"none", "deleted"} THEN "err" ELSE srv[s]}

\* The results the backend attaches to an answer for s: those of s once s is
\* completed, none before.
ResultsOf(s, a) == IF a \in {"done", "completed"} THEN s ELSE NULL

\* pollProgress(), up to its fetch of /api/progress/{currentAnalysisId}; cur is
\* currentAnalysisId at the call and base the fetches outstanding without it.
pollProgress_fetch(cur, base) ==
    IF cur = NULL
    THEN net' = base
    ELSE \E a \in ProgressReplies(cur) :
           net' = base (+) SetToBag({Req("G.progress", cur, a, srvPct[cur])})

\* executeAnalysis() and startAnalysis(formData), up to the fetch of
\* /api/execute_complete_analysis.
executeAnalysis ==
    /\ CanCommand
    /\ isAnalysisRunning' = TRUE
    /\ Silent
    /\ \/ /\ Unborn # {}
          /\ net' = Send(ReqCtx("G.submit", FreshId, "ok", 0, form))
          /\ srv' = [srv EXCEPT ![FreshId] = "running"]
          /\ UNCHANGED srvPct
       \/ /\ net' = Send(ReqCtx("G.submit", NULL, "fail", 0, form))
          /\ UNCHANGED envVars
    /\ UNCHANGED <<masState, currentAnalysisId, savedSessions, lsAnalyses, storage,
                   autoSaveInterval, pollTimers, progressBar, resultsShown, form>>
    /\ UNCHANGED smState

\* startAnalysis(formData), from the response on.
startAnalysis_then(r) ==
    /\ r.op = "G.submit"
    /\ IF r.res = "ok"
       THEN /\ currentAnalysisId' = r.sid
            /\ saveSession(r.sid, Snapshot("running", 0, NULL, r.ctx))
            /\ autoSaveInterval' = TRUE
            /\ pollProgress_fetch(r.sid, Settle(r))
            /\ Silent
            /\ UNCHANGED isAnalysisRunning
       ELSE /\ MAS_showNotification("error", "erro ao iniciar")
            /\ Log("erro na analise")
            /\ isAnalysisRunning' = FALSE
            /\ autoSaveInterval' = FALSE
            /\ net' = Settle(r)
            /\ UNCHANGED <<currentAnalysisId, savedSessions, lsAnalyses, storage>>
    /\ UNCHANGED <<envVars, masState, pollTimers, progressBar, resultsShown, form>>
    /\ UNCHANGED smState

\* A setTimeout(pollProgress, 3000) fires: pollProgress(), up to its fetch.
pollProgress ==
    /\ pollTimers > 0
    /\ pollTimers' = pollTimers - 1
    /\ HasFree
    /\ pollProgress_fetch(currentAnalysisId, net)
    /\ Silent
    /\ UNCHANGED <<envVars, masState, currentAnalysisId, isAnalysisRunning,
                   savedSessions, lsAnalyses, storage, autoSaveInterval, progressBar,
                   resultsShown, form>>
    /\ UNCHANGED smState

\* pollProgress(), from the response on.
pollProgress_then(r) ==
    /\ r.op = "G.progress"
    /\ net' = Settle(r)
    /\ IF r.res \in {"ok", "done"}
       THEN /\ updateProgressUI(r.pct, r.sid)
            /\ saveSession(currentAnalysisId,
                           Snapshot(IF r.res = "done" THEN "completed" ELSE "running",
                                    r.pct, ResultsOf(r.sid, r.res), form))
            /\ Silent
            /\ IF r.res = "done"
               THEN /\ showResults(ResultsOf(r.sid, r.res))
                    /\ autoSaveInterval' = FALSE
                    /\ isAnalysisRunning' = FALSE
                    /\ currentAnalysisId' = NULL
                    /\ UNCHANGED pollTimers
               ELSE /\ pollTimers' = IF isAnalysisRunning THEN pollTimers + 1
                                                          ELSE pollTimers
                    /\ UNCHANGED <<resultsShown, autoSaveInterval,
                                   isAnalysisRunning, currentAnalysisId>>
       ELSE /\ MAS_showNotification("error", "erro ao monitorar")
            /\ Log("erro no polling de progresso")
            /\ autoSaveInterval' = FALSE
            /\ isAnalysisRunning' = FALSE
            /\ UNCHANGED <<progressBar, savedSessions, lsAnalyses, storage, resultsShown,
                           currentAnalysisId, pollTimers>>
    /\ (r.res = "ok" /\ isAnalysisRunning) => pollTimers < MaxPollTimers
    /\ UNCHANGED <<envVars, masState, form>>
    /\ UNCHANGED smState

\* A test that never finds the analysis complete in the cache.
CachedComplete_never(s) == FALSE

\* continueAnalysis's test: sessionData.progress === 100 && sessionData.results
CachedComplete(s) == getSession(s).progress = 100 /\ getSession(s).results # NULL

\* continueAnalysis(sessionId), up to the fetch of checkAnalysisStatus; the
\* button is rendered for the keys of savedSessions.
continueAnalysis(s) ==
    /\ getSession(s) # Absent
    /\ form' = getSession(s).ctx
    /\ currentAnalysisId' = s
    /\ Silent
    /\ IF CachedComplete(s)
       THEN /\ showResults(getSession(s).results)
            /\ UNCHANGED <<net, envVars>>
       ELSE /\ CanCommand
            /\ \E a \in AnalysisStatusReplies(s) :
                  net' = Send(Req("G.status", s, a, srvPct[s]))
            /\ UNCHANGED <<envVars, resultsShown>>
    /\ UNCHANGED <<masState, isAnalysisRunning, savedSessions, lsAnalyses, storage,
                   autoSaveInterval, pollTimers, progressBar>>
    /\ UNCHANGED smState

\* checkAnalysisStatus(sessionId), from the response on.
checkAnalysisStatus_then(r) ==
    /\ r.op = "G.status"
    /\ CASE r.res = "running" ->
              /\ currentAnalysisId' = r.sid
              /\ isAnalysisRunning' = TRUE
              /\ updateProgressUI(r.pct, r.sid)
              /\ autoSaveInterval' = TRUE
              /\ pollProgress_fetch(r.sid, Settle(r))
              /\ Silent
              /\ UNCHANGED <<savedSessions, lsAnalyses, storage, resultsShown>>
         [] r.res = "completed" ->
              /\ currentAnalysisId' = r.sid
              /\ isAnalysisRunning' = FALSE
              /\ showResults(ResultsOf(r.sid, r.res))
              /\ autoSaveInterval' = FALSE
              /\ net' = Settle(r)
              /\ Silent
              /\ UNCHANGED <<savedSessions, lsAnalyses, storage, progressBar>>
         [] r.res \in {"paused", "error"} ->
              /\ currentAnalysisId' = r.sid
              /\ isAnalysisRunning' = FALSE
              /\ saveSession(r.sid, Snapshot(r.res, r.pct, NULL, form))
              /\ net' = Settle(r)
              /\ Silent
              /\ UNCHANGED <<autoSaveInterval, progressBar, resultsShown>>
         [] OTHER ->
              /\ MAS_showNotification("error", "erro ao verificar status")
              /\ Log("erro ao verificar status")
              /\ net' = Settle(r)
              /\ UNCHANGED <<currentAnalysisId, isAnalysisRunning, savedSessions,
                             lsAnalyses, storage, autoSaveInterval, progressBar,
                             resultsShown>>
    /\ UNCHANGED <<envVars, masState, pollTimers, form>>
    /\ UNCHANGED smState

\* The auto-save interval fires (startAutoSave's callback).
autoSaveTick ==
    /\ autoSaveInterval
    /\ currentAnalysisId # NULL /\ isAnalysisRunning
    /\ saveSession(currentAnalysisId,
                   Snapshot("in_progress", progressBar.pct, NULL, form))
    /\ Silent
    /\ UNCHANGED <<envVars, net, masState, currentAnalysisId, isAnalysisRunning,
                   autoSaveInterval, pollTimers, progressBar, resultsShown, form>>
    /\ UNCHANGED smState

\* deleteAnalysis(sessionId), confirmed by the user; the button is rendered for
\* the keys of savedSessions.
deleteAnalysis(s) ==
    /\ getSession(s) # Absent
    /\ deleteSession(s)
    /\ MAS_showNotification("success", "analise excluida")
    /\ NoLog
    /\ UNCHANGED <<envVars, net, masState, currentAnalysisId, isAnalysisRunning,
                   autoSaveInterval, pollTimers, progressBar, resultsShown, form>>
    /\ UNCHANGED smState

\* The user types other values into the analysis form.
editForm(c) ==
    /\ c # form
    /\ form' = c
    /\ Silent
    /\ UNCHANGED <<envVars, net, masState, currentAnalysisId, isAnalysisRunning,
                   savedSessions, lsAnalyses, storage, autoSaveInterval, pollTimers,
                   progressBar, resultsShown>>
    /\ UNCHANGED smState

\* ------------------------------------------------------ session manager
\* GET /api/sessions/load/{id}: {success, session_data} with
\* session_data.metadata.completed_steps, or {success:false, error}; "fail" is
\* a rejected fetch or an unparsable body.
LoadReplies(s) == {"fail", IF srv[s] \in {"none", "deleted"} THEN "err" ELSE "ok"}

\* A gate that opens step 3 as soon as step 2 is completed.
canContinueFromStep_lastOnly(step, completedSteps) ==
    CASE step = 1 -> TRUE
      [] step = 2 -> 1 \in completedSteps
      [] step = 3 -> 2 \in completedSteps
      [] OTHER    -> FALSE

\* canContinueFromStep(step, completedSteps)
canContinueFromStep(step, completedSteps) ==
    CASE step = 1 -> TRUE
      [] step = 2 -> 1 \in completedSteps
      [] step = 3 -> 1 \in completedSteps /\ 2 \in completedSteps
      [] OTHER    -> FALSE

\* updateStepSelector(sessionData): every step button is disabled unless the
\* gate lets the step through.
updateStepSelector(completedSteps) ==
    stepDisabled' = [k \in Steps |-> ~canContinueFromStep(k, completedSteps)]

\* The notification helper of the page, window.showNotification (console.warn
\* or console.log on a page without one).
showNotification(type, msg) == notification' = [type |-> type, msg |-> msg]

\* selectSession(sessionId), up to its fetch; the session items are rendered
\* for the sessions the backend listed.
selectSession(s) ==
    /\ srv[s] # "none"
    /\ HasFree
    /\ selectedSessionId' = s
    /\ \E a \in LoadReplies(s) :
          net' = Send(ReqLoad(s, a, IF a = "ok" THEN srvSteps[s] ELSE {}))
    /\ Silent
    /\ UNCHANGED <<envVars, masState, gState, srvSteps, selectedStep, stepDisabled,
                   continueDisabled, smCurrentSessionId, stepStarted, stepChosenFor>>

\* selectSession(sessionId), from the response on.
selectSession_then(r) ==
    /\ r.op = "S.load"
    /\ net' = Settle(r)
    /\ IF r.res = "ok"
       THEN /\ updateStepSelector(r.steps)
            /\ showNotification("success", "sessao selecionada")
            /\ NoLog
       ELSE /\ Log("erro ao selecionar sessao")
            /\ showNotification("error", "erro ao selecionar sessao")
            /\ UNCHANGED stepDisabled
    /\ UNCHANGED <<envVars, masState, gState, srvSteps, selectedSessionId,
                   selectedStep, continueDisabled, smCurrentSessionId, stepStarted,
                   stepChosenFor>>

\* selectStep(step), called by the click on a step button
selectStep(step) ==
    /\ IF selectedSessionId = NULL
       THEN /\ showNotification("warning", "selecione uma sessao")
            /\ UNCHANGED <<selectedStep, continueDisabled, stepChosenFor>>
       ELSE IF stepDisabled[step]
       THEN /\ showNotification("warning", "etapa nao disponivel")
            /\ UNCHANGED <<selectedStep, continueDisabled, stepChosenFor>>
       ELSE /\ selectedStep' = step
            /\ continueDisabled' = FALSE
            /\ stepChosenFor' = selectedSessionId
            /\ showNotification("info", "etapa selecionada")
    /\ NoLog
    /\ UNCHANGED <<envVars, net, masState, gState, srvSteps, selectedSessionId,
                   stepDisabled, smCurrentSessionId, stepStarted>>

\* startNewSession()
startNewSession ==
    /\ selectedSessionId' = NULL
    /\ smCurrentSessionId' = NULL
    /\ continueDisabled' = TRUE
    /\ stepDisabled' = [k \in Steps |-> TRUE]
    /\ showNotification("info", "nova sessao")
    /\ NoLog
    /\ UNCHANGED <<envVars, net, masState, gState, srvSteps, selectedStep,
                   stepStarted, stepChosenFor>>

\* GET /api/sessions/can-continue/{id}/{step}: the gateway lets a step of a
\* session it has through when the steps before it are completed ("ok"),
\* answers can_continue false ("no") or success false ("err") otherwise;
\* "fail" is a rejected fetch or an unparsable body.
CanContinueReplies(s, k) ==
    {"fail", "err"} \cup
    (IF srv[s] \notin {"none", "deleted"} /\ \A j \in 1..(k - 1) : j \in srvSteps[s]
     THEN {"ok"} ELSE {"no"})

\* the can-continue request for step k of session s
ReqCan(s, k, a) ==
    [op |-> "S.can", sid |-> s, res |-> a, pct |-> k, ctx |-> NULL, list |-> {},
     steps |-> {}]

\* session_data.context of a session on the backend: the form it was submitted
\* with, the first session with c1 and the second with c2
SessionContext(s) == IF s = SessionOrder[1] THEN "c1" ELSE "c2"

\* continueFromStep(), up to the fetch of the can-continue check
continueFromStep ==
    /\ ~continueDisabled
    /\ IF selectedSessionId = NULL \/ selectedStep = NoStep
       THEN /\ showNotification("warning", "selecione uma sessao e etapa")
            /\ UNCHANGED net
       ELSE /\ CanCommand
            /\ \E a \in CanContinueReplies(selectedSessionId, selectedStep) :
                  net' = Send(ReqCan(selectedSessionId, selectedStep, a))
            /\ notification' = NoNote
    /\ NoLog
    /\ UNCHANGED <<envVars, masState, gState, smState>>

\* A refusal that takes the selected session as the current one all the same.
continueFromStep_catch_adopts ==
    /\ Log("erro ao continuar execucao")
    /\ showNotification("error", "erro ao continuar")
    /\ smCurrentSessionId' = selectedSessionId
    /\ UNCHANGED <<form, stepStarted>>

\* continueFromStep()'s catch block
continueFromStep_catch ==
    /\ Log("erro ao continuar execucao")
    /\ showNotification("error", "erro ao continuar")
    /\ UNCHANGED <<smCurrentSessionId, form, stepStarted>>

\* continueFromStep(), from the answer of the can-continue check to the fetch of
\* loadSessionDataToForm: a refusal is thrown into the catch; otherwise the
\* session selected now becomes the current one and its data is requested.
continueFromStep_then(r) ==
    /\ r.op = "S.can"
    /\ IF r.res = "ok"
       THEN /\ smCurrentSessionId' = selectedSessionId
            /\ \E a \in (IF selectedSessionId = NULL THEN {"fail", "err"}
                                                       ELSE LoadReplies(selectedSessionId)) :
                  net' = Settle(r) (+) SetToBag({[op |-> "S.form", sid |-> selectedSessionId,
                                                  res |-> a, pct |-> 0,
                                                  ctx |-> SessionContext(selectedSessionId),
                                                  list |-> {}, steps |-> {}]})
            /\ Silent
            /\ UNCHANGED <<form, stepStarted>>
       ELSE /\ net' = Settle(r)
            /\ continueFromStep_catch
    /\ UNCHANGED <<envVars, masState, srvSteps, selectedSessionId, selectedStep,
                   stepDisabled, continueDisabled, stepChosenFor,
                   currentAnalysisId, isAnalysisRunning, savedSessions, lsAnalyses,
                   storage, autoSaveInterval, pollTimers, progressBar, resultsShown>>

\* continueFromStep(), from the answer that loadSessionDataToForm awaited: the
\* form takes the context of the session (a failure is only logged), then the
\* step selected now is started and the success is announced.
loadSessionDataToForm_then(r) ==
    /\ r.op = "S.form"
    /\ net' = Settle(r)
    /\ IF r.res = "ok"
       THEN /\ form' = r.ctx
            /\ NoLog
       ELSE /\ Log("erro ao carregar dados da sessao")
            /\ UNCHANGED form
    /\ stepStarted' = [sid |-> smCurrentSessionId, step |-> selectedStep]
    /\ showNotification("success", "continuando execucao")
    /\ UNCHANGED <<envVars, masState, srvSteps, selectedSessionId, selectedStep,
                   stepDisabled, continueDisabled, smCurrentSessionId, stepChosenFor,
                   currentAnalysisId, isAnalysisRunning, savedSessions, lsAnalyses,
                   storage, autoSaveInterval, pollTimers, progressBar, resultsShown>>

\* ----------------------------------------------------------------- Init
\* The page has just been loaded: the backend may hold sessions of an earlier
\* visit, localStorage may name one of them as the last active one, and the
\* constructor of ModernAnalysisSystem has run restoreLastSession() up to its
\* fetch.
InitSrv ==
    /\ srv \in [Sessions -> {"none", "running", "paused", "completed", "error"}]
    /\ \A k \in 1..Len(SessionOrder) : \A j \in 1..Len(SessionOrder) :
          (k < j /\ srv[SessionOrder[k]] = "none") => srv[SessionOrder[j]] = "none"
    /\ srvPct = [s \in Sessions |-> IF srv[s] = "completed" THEN 100 ELSE 0]

\* The scripts of the page have just run: the constructor of AnalysisPersistence
\* has loaded the Map, the constructor of ModernAnalysisSystem has run
\* restoreLastSession() up to its fetch, and the session list is on the page.
InitClient ==
    /\ currentSessionId = lsCurrentSessionId
    /\ IF lsCurrentSessionId = NULL
       THEN net = EmptyBag
       ELSE \E a \in StatusReplies(lsCurrentSessionId) :
              net = SetToBag({Req("M.status", lsCurrentSessionId, a, 0)})
    /\ progressInterval = NoTimer
    /\ isPaused = FALSE
    /\ sessions = Listed
    /\ timers = {}
    /\ progressFill = [pct |-> 0, of |-> NULL]
    /\ notification = NoNote
    /\ consoleError = IF storage = "ok" THEN NULL ELSE "erro ao carregar sessoes locais"
    /\ currentAnalysisId = NULL
    /\ isAnalysisRunning = FALSE
    /\ savedSessions = loadSavedSessions
    /\ autoSaveInterval = FALSE
    /\ pollTimers = 0
    /\ progressBar = [pct |-> 0, of |-> NULL]
    /\ resultsShown = NULL
    /\ form = "c1"
    /\ completedShown = [s \in Sessions |-> 0]
    /\ selectedSessionId = NULL
    /\ selectedStep = NoStep
    /\ stepDisabled = [k \in Steps |-> TRUE]
    /\ continueDisabled = TRUE
    /\ smCurrentSessionId = NULL
    /\ stepStarted = [sid |-> NULL, step |-> NoStep]
    /\ stepChosenFor = NULL

\* A visit that finds no saved analysis in localStorage.
InitPage ==
    /\ InitSrv
    /\ lsCurrentSessionId \in {NULL} \cup {s \in Sessions : srv[s] # "none"}
    /\ lsAnalyses = [k \in Keys |-> Absent]
    /\ storage = "ok"
    /\ InitClient

\* The user reloads the page: the scripts start again, localStorage and the
\* backend are what they were, and the fetches of the old page are dropped.
Reload ==
    /\ UNCHANGED <<envVars, srvSteps, lsCurrentSessionId, lsAnalyses, storage>>
    /\ currentSessionId' = lsCurrentSessionId
    /\ IF lsCurrentSessionId = NULL
       THEN net' = EmptyBag
       ELSE \E a \in StatusReplies(lsCurrentSessionId) :
              net' = SetToBag({Req("M.status", lsCurrentSessionId, a, 0)})
    /\ progressInterval' = NoTimer
    /\ isPaused' = FALSE
    /\ sessions' = Listed
    /\ timers' = {}
    /\ progressFill' = [pct |-> 0, of |-> NULL]
    /\ notification' = NoNote
    /\ consoleError' = IF storage = "ok" THEN NULL ELSE "erro ao carregar sessoes locais"
    /\ currentAnalysisId' = NULL
    /\ isAnalysisRunning' = FALSE
    /\ savedSessions' = loadSavedSessions
    /\ autoSaveInterval' = FALSE
    /\ pollTimers' = 0
    /\ progressBar' = [pct |-> 0, of |-> NULL]
    /\ resultsShown' = NULL
    /\ form' = "c1"
    /\ completedShown' = [s \in Sessions |-> 0]
    /\ selectedSessionId' = NULL
    /\ selectedStep' = NoStep
    /\ stepDisabled' = [k \in Steps |-> TRUE]
    /\ continueDisabled' = TRUE
    /\ smCurrentSessionId' = NULL
    /\ stepStarted' = [sid |-> NULL, step |-> NoStep]
    /\ stepChosenFor' = NULL

\* The step records of the backend are read by the session manager only; the
\* specifications without it start with none.
Init ==
    /\ InitPage
    /\ srvSteps = [s \in Sessions |-> {}]

Backend ==
    \/ \E s \in Sessions : SrvComplete(s)
    \/ \E s \in Sessions : SrvFail(s)

\* ModernAnalysisSystem alone.
NextMAS ==
    \/ MAS_startAnalysis
    \/ \E r \in Outstanding : MAS_startAnalysis_then(r)
    \/ \E t \in timers : MAS_tick(t)
    \/ \E r \in Outstanding : MAS_tick_then(r)
    \/ MAS_pauseSession
    \/ \E r \in Outstanding : MAS_pauseSession_then(r)
    \/ MAS_resumeSession
    \/ \E r \in Outstanding : MAS_resumeSession_then(r)
    \/ \E s \in Sessions : MAS_continueSession(s)
    \/ \E r \in Outstanding : MAS_continueSession_then(r)
    \/ \E r \in Outstanding : MAS_checkSessionStatus_then(r)
    \/ \E r \in Outstanding : MAS_loadSavedSessions_then(r)

Next == Backend \/ NextMAS

Spec == Init /\ [][Next]_vars

\* The module-level tracker alone: no session of an earlier visit.
InitTracker ==
    /\ Init
    /\ \A s \in Sessions : srv[s] = "none"

NextTracker ==
    \/ executeAnalysis
    \/ \E r \in Outstanding : startAnalysis_then(r)
    \/ pollProgress
    \/ \E r \in Outstanding : pollProgress_then(r)
    \/ \E s \in Sessions : continueAnalysis(s)
    \/ \E r \in Outstanding : checkAnalysisStatus_then(r)
    \/ autoSaveTick

SpecTracker == InitTracker /\ [][Backend \/ NextTracker]_vars

\* Both trackers of the page, submitting and polling: a first visit on which
\* the user only starts analyses, through either entry point.
NextSubmit ==
    \/ MAS_startAnalysis
    \/ \E r \in Outstanding : MAS_startAnalysis_then(r)
    \/ \E t \in timers : MAS_tick(t)
    \/ \E r \in Outstanding : MAS_tick_then(r)
    \/ \E r \in Outstanding : MAS_loadSavedSessions_then(r)
    \/ executeAnalysis
    \/ \E r \in Outstanding : startAnalysis_then(r)
    \/ pollProgress
    \/ \E r \in Outstanding : pollProgress_then(r)
    \/ autoSaveTick

SpecSubmit == InitTracker /\ [][Backend \/ NextSubmit]_vars

\* The module-level tracker while the user goes on typing in the form: submit,
\* poll, auto-save and edits of the form.
NextMerge ==
    \/ executeAnalysis
    \/ \E r \in Outstanding : startAnalysis_then(r)
    \/ pollProgress
    \/ \E r \in Outstanding : pollProgress_then(r)
    \/ autoSaveTick
    \/ \E c \in Contexts : editForm(c)

SpecMerge == InitTracker /\ [][Backend \/ NextMerge]_vars

\* A reload that finds the last-active session s1 paused, followed by resumes
\* and the polling they start.
InitPaused ==
    /\ Init
    /\ lsCurrentSessionId = "s1"
    /\ srv["s1"] = "paused"
    /\ \E q \in Outstanding : q.res = "paused"

NextResume ==
    \/ \E r \in Outstanding : MAS_checkSessionStatus_then(r)
    \/ MAS_resumeSession
    \/ \E r \in Outstanding : MAS_resumeSession_then(r)
    \/ \E t \in timers : MAS_tick(t)
    \/ \E r \in Outstanding : MAS_tick_then(r)
    \/ \E r \in Outstanding : MAS_loadSavedSessions_then(r)

SpecRestorePaused == InitPaused /\ [][Backend \/ NextResume]_vars

\* Deleting: analyses are submitted and polled by the module-level tracker and
\* deleted through either delete button.
NextDelete ==
    \/ executeAnalysis
    \/ \E r \in Outstanding : startAnalysis_then(r)
    \/ pollProgress
    \/ \E r \in Outstanding : pollProgress_then(r)
    \/ \E s \in Sessions : deleteAnalysis(s)
    \/ \E s \in Sessions : MAS_deleteSession(s)
    \/ \E r \in Outstanding : MAS_deleteSession_then(r)

SpecDelete == InitTracker /\ [][Backend \/ NextDelete]_vars

\* Deleting what is being polled: analyses are submitted and polled by
\* ModernAnalysisSystem, and sessions are deleted one by one or all at once.
NextDeletePolled ==
    \/ MAS_startAnalysis
    \/ \E r \in Outstanding : MAS_startAnalysis_then(r)
    \/ \E t \in timers : MAS_tick(t)
    \/ \E r \in Outstanding : MAS_tick_then(r)
    \/ \E r \in Outstanding : MAS_loadSavedSessions_then(r)
    \/ \E s \in Sessions : MAS_deleteSession(s)
    \/ \E r \in Outstanding : MAS_deleteSession_then(r)
    \/ MAS_clearAllSessions
    \/ \E r \in Outstanding : MAS_clearAllSessions_then(r)

SpecDeletePolled == InitTracker /\ [][Backend \/ NextDeletePolled]_vars

\* The bulk clear: a page with sessions of an earlier visit, on which analyses
\* are submitted and polled by the module-level tracker, the list is refreshed
\* and everything is cleared.
NextClear ==
    \/ \E r \in Outstanding : MAS_checkSessionStatus_then(r)
    \/ executeAnalysis
    \/ \E r \in Outstanding : startAnalysis_then(r)
    \/ pollProgress
    \/ \E r \in Outstanding : pollProgress_then(r)
    \/ MAS_loadSavedSessions
    \/ \E r \in Outstanding : MAS_loadSavedSessions_then(r)
    \/ MAS_clearAllSessions
    \/ \E r \in Outstanding : MAS_clearAllSessions_then(r)

SpecClear == Init /\ [][Backend \/ NextClear]_vars

\* The session manager: the backend holds paused sessions of earlier visits with
\* any record of completed steps, and the user selects sessions and steps.
InitSteps ==
    /\ InitPage
    /\ lsCurrentSessionId = NULL
    /\ \A s \in Sessions : srv[s] \in {"none", "paused"}
    /\ srvSteps \in [Sessions -> SUBSET Steps]
    /\ \A s \in Sessions : srv[s] = "none" => srvSteps[s] = {}

NextSteps ==
    \/ \E s \in Sessions : selectSession(s)
    \/ \E r \in Outstanding : selectSession_then(r)
    \/ \E k \in Steps : selectStep(k)
    \/ startNewSession

SpecSteps == InitSteps /\ [][NextSteps]_vars

\* Continuing from a step: two paused sessions, s1 with steps 1 and 2 completed
\* and s2 with none or with steps 1 and 2; the user selects sessions and steps
\* and presses the continue button.
InitContinue ==
    /\ InitPage
    /\ lsCurrentSessionId = NULL
    /\ \A s \in Sessions : srv[s] = "paused"
    /\ srvSteps \in [Sessions -> SUBSET Steps]
    /\ srvSteps["s1"] = {1, 2}
    /\ srvSteps["s2"] \in {{}, {1, 2}}

NextContinue ==
    \/ NextSteps
    \/ continueFromStep
    \/ \E r \in Outstanding : continueFromStep_then(r)
    \/ \E r \in Outstanding : loadSessionDataToForm_then(r)

SpecContinue == InitContinue /\ [][NextContinue]_vars

\* Progress: a reload that finds the last-active session s1 running while the
\* job advances on the backend; the session is polled, paused, resumed and
\* continued.
InitProgress ==
    /\ Init
    /\ lsCurrentSessionId = "s1"
    /\ srv = [s \in Sessions |-> IF s = "s1" THEN "running" ELSE "none"]

NextProgress ==
    \/ \E s \in Sessions : SrvAdvance(s)
    \/ \E r \in Outstanding : MAS_checkSessionStatus_then(r)
    \/ \E t \in timers : MAS_tick(t)
    \/ \E r \in Outstanding : MAS_tick_then(r)
    \/ MAS_pauseSession
    \/ \E r \in Outstanding : MAS_pauseSession_then(r)
    \/ MAS_resumeSession
    \/ \E r \in Outstanding : MAS_resumeSession_then(r)
    \/ \E s \in Sessions : MAS_continueSession(s)
    \/ \E r \in Outstanding : MAS_continueSession_then(r)
    \/ \E r \in Outstanding : MAS_loadSavedSessions_then(r)

SpecProgress == InitProgress /\ [][Backend \/ NextProgress]_vars

\* Polling to the end: the page of InitProgress with every operation of
\* ModernAnalysisSystem, under the scheduling the browser gives.  An armed
\* interval fires again and again, and an awaited response is handed to its
\* continuation.
FairPolling ==
    /\ \A t \in 1..MaxTimers : SF_vars(MAS_tick(t))
    /\ WF_vars(\E r \in Outstanding : MAS_tick_then(r))
    /\ WF_vars(\E r \in Outstanding : MAS_startAnalysis_then(r))
    /\ WF_vars(\E r \in Outstanding : MAS_pauseSession_then(r))
    /\ WF_vars(\E r \in Outstanding : MAS_resumeSession_then(r))
    /\ WF_vars(\E r \in Outstanding : MAS_continueSession_then(r))
    /\ WF_vars(\E r \in Outstanding : MAS_checkSessionStatus_then(r))
    /\ WF_vars(\E r \in Outstanding : MAS_loadSavedSessions_then(r))

\* The requests in flight whose answer makes the handler call
\* startProgressMonitoring, and the room left for the intervals they will arm:
\* the user issues a command that may arm an interval only while there is room,
\* so that no response ever waits for a free interval.
Arming ==
    {q \in Outstanding : \/ q.op \in {"M.submit", "M.resume", "M.continue"} /\ q.res = "ok"
                         \/ q.op = "M.status" /\ q.res = "running"}
Room == Cardinality(timers) + BagCardinality([q \in Arming |-> net[q]]) < MaxTimers

NextPolling ==
    \/ Room /\ MAS_startAnalysis
    \/ \E r \in Outstanding : MAS_startAnalysis_then(r)
    \/ \E t \in timers : MAS_tick(t)
    \/ \E r \in Outstanding : MAS_tick_then(r)
    \/ MAS_pauseSession
    \/ \E r \in Outstanding : MAS_pauseSession_then(r)
    \/ Room /\ MAS_resumeSession
    \/ \E r \in Outstanding : MAS_resumeSession_then(r)
    \/ Room /\ \E s \in Sessions : MAS_continueSession(s)
    \/ \E r \in Outstanding : MAS_continueSession_then(r)
    \/ \E r \in Outstanding : MAS_checkSessionStatus_then(r)
    \/ \E r \in Outstanding : MAS_loadSavedSessions_then(r)

SpecPolling == InitProgress /\ [][Backend \/ NextPolling]_vars /\ FairPolling

\* The local store over reloads: a visit that may find a saved analysis of s1
\* in localStorage, or a localStorage that is corrupt or cannot be accessed;
\* analyses are submitted, polled, auto-saved and deleted, everything is
\* cleared, and the page is reloaded.
StoredS1 == [[k \in Keys |-> Absent] EXCEPT !["s1"] = Snapshot("completed", 100, "s1", "c1")]

InitStore ==
    /\ srv \in {[s \in Sessions |-> "none"],
                [s \in Sessions |-> IF s = "s1" THEN "completed" ELSE "none"]}
    /\ srvPct = [s \in Sessions |-> IF srv[s] = "completed" THEN 100 ELSE 0]
    /\ srvSteps = [s \in Sessions |-> {}]
    /\ lsCurrentSessionId = NULL
    /\ storage \in {"ok", "corrupt", "unavailable"}
    /\ lsAnalyses \in {[k \in Keys |-> Absent]}
                        \cup (IF srv["s1"] = "none" THEN {} ELSE {StoredS1})
    /\ InitClient

NextStore ==
    \/ executeAnalysis
    \/ \E r \in Outstanding : startAnalysis_then(r)
    \/ pollProgress
    \/ \E r \in Outstanding : pollProgress_then(r)
    \/ autoSaveTick
    \/ \E s \in Sessions : deleteAnalysis(s)
    \/ MAS_clearAllSessions
    \/ \E r \in Outstanding : MAS_clearAllSessions_then(r)
    \/ Reload

SpecStore == InitStore /\ [][Backend \/ NextStore]_vars

\* =============================================================== claims
\* the status checks of ModernAnalysisSystem's interval that are outstanding
\* for session s
TicksInFlight(s) ==
    BagCardinality([q \in {x \in Outstanding : x.op = "M.progress" /\ x.sid = s}
                      |-> net[q]])

\* C1: at any moment at most one polling timer is live.
C1_AtMostOneTimer == Cardinality(timers) <= 1

\* C2: once the active session is B, no status check is issued for another
\* session and no status result of another session reaches the display or the
\* store.
C2_SupersededPollerSilent ==
    [][ /\ \A q \in Outstanding' :
             (q.op = "M.progress" /\ CopiesIn(q, net') > CopiesIn(q, net))
                => q.sid = currentSessionId
        /\ \A r \in Outstanding :
             (r.sid # currentSessionId /\ MAS_tick_then(r))
                => UNCHANGED <<progressFill, savedSessions, lsAnalyses>>
      ]_vars

\* C3: a status response whose session is no longer the active one, or that
\* arrives after the poller was stopped, is discarded: it changes neither the
\* display nor the store and emits no event.
C3_StaleResponseDiscarded ==
    [][ /\ \A r \in Outstanding :
             (MAS_tick_then(r) /\ r.res # "fail"
                /\ (r.sid # currentSessionId \/ progressInterval = NoTimer))
                => /\ UNCHANGED <<progressFill, completedShown>>
                   /\ notification' = NoNote
        /\ \A r \in Outstanding :
             (pollProgress_then(r) /\ r.res # "fail" /\ r.sid # currentAnalysisId)
                => /\ UNCHANGED <<progressBar, savedSessions, lsAnalyses, resultsShown>>
                   /\ notification' = NoNote
      ]_vars

\* C4: the completion of a session is announced exactly once: never twice.
C4_CompletedOnce == \A s \in Sessions : completedShown[s] <= 1

\* C5: when a poll result with completed = true has been processed there is
\* no active session: no timer is live, the active id is cleared and the
\* persisted marker is absent.
C5_NoActiveSessionAfterCompleted ==
    [][ \A r \in Outstanding :
          (MAS_tick_then(r) /\ r.res = "done")
             => /\ timers' = {}
                /\ currentSessionId' = NULL
                /\ lsCurrentSessionId' = NULL
      ]_vars

\* C6: there is never more than one status check in flight for the active
\* session.
C6_OneCheckInFlight ==
    currentSessionId # NULL => TicksInFlight(currentSessionId) <= 1

C8_FatalErrorStopsPolling ==
    [][ \A r \in Outstanding :
          (MAS_tick_then(r) /\ r.res = "err" /\ r.sid = currentSessionId)
             => /\ timers' = {}
                /\ notification'.type = "error"
      ]_vars

\* C9: while the poller is stopped (no handle is stored) no timer issues a
\* status check.
C9_NoTickAfterStop ==
    [][ progressInterval = NoTimer => \A t \in timers : ~MAS_tick(t) ]_vars

C11_FailedSubmitMutatesNothing ==
    [][ /\ \A r \in Outstanding :
             (startAnalysis_then(r) /\ r.res = "fail")
                => UNCHANGED <<savedSessions, lsAnalyses, currentAnalysisId,
                               autoSaveInterval, pollTimers>>
        /\ \A r \in Outstanding :
             (MAS_startAnalysis_then(r) /\ r.res = "fail")
                => UNCHANGED <<savedSessions, lsAnalyses, currentSessionId,
                               lsCurrentSessionId, progressInterval, timers, isPaused>>
      ]_vars

\* C12: processing a poll result for the active session s overwrites the
\* persisted progress of s with the remote value and keeps the context (the
\* form values) stored in the snapshot of s.
C12_MergeKeepsContext ==
    [][ \A r \in Outstanding :
          (pollProgress_then(r) /\ r.res \in {"ok", "done"}
             /\ r.sid = currentAnalysisId /\ savedSessions[r.sid] # Absent)
             => /\ savedSessions'[r.sid].progress = r.pct
                /\ savedSessions'[r.sid].ctx = savedSessions[r.sid].ctx
      ]_vars

\* C14: the restore's status check starts polling if and only if the answer
\* is running: on running it arms an interval, on every other answer (paused,
\* completed, error, failure) it arms none and leaves the timers as they are.
C14_RestorePollsIffRunning ==
    [][ \A r \in Outstanding :
          MAS_checkSessionStatus_then(r)
             => IF r.res = "running"
                THEN progressInterval' \in timers' \ timers
                ELSE UNCHANGED <<timers, progressInterval>>
      ]_vars

\* C14 (witness): the restore has just found the session running and armed
\* the only interval.
C14_Witness ==
    /\ notification = [type |-> "info", msg |-> "restaurada"]
    /\ timers = {progressInterval}
    /\ currentSessionId # NULL

\* C15: the restore's status check clears the last-active marker when the
\* answer is completed or error, and keeps it when the answer is running or
\* paused.
C15_RestoreMarker ==
    [][ \A r \in Outstanding :
          MAS_checkSessionStatus_then(r)
             => /\ r.res \in {"completed", "error"} => lsCurrentSessionId' = NULL
                /\ r.res \in {"running", "paused"} => UNCHANGED lsCurrentSessionId
      ]_vars

\* C16: the restore's status check is issued once, at load, and while it is
\* outstanding for session s no pause, resume or continue of s is sent.
C16_RestoreBeforeUserActions ==
    [][ /\ \A q \in Outstanding' : q.op = "M.status" => q \in Outstanding
        /\ \A q \in Outstanding' :
             (q.op \in {"M.pause", "M.resume", "M.continue"}
                /\ CopiesIn(q, net') > CopiesIn(q, net))
                => ~ \E x \in Outstanding : x.op = "M.status" /\ x.sid = q.sid
      ]_vars

\* C17: when the pause or resume call fails (transport failure or an answer
\* without success) the handler shows the error and leaves the paused flag,
\* the stored handle, the live timers and the active session as they were;
\* sending the call changes none of them either (no optimistic flip).
C17_FailedPauseResumeChangesNothing ==
    [][ /\ \A r \in Outstanding :
             ((MAS_pauseSession_then(r) \/ MAS_resumeSession_then(r)) /\ r.res # "ok")
                => /\ UNCHANGED <<isPaused, progressInterval, timers,
                                  currentSessionId, lsCurrentSessionId>>
                   /\ notification'.type = "error"
        /\ (MAS_pauseSession \/ MAS_resumeSession)
             => UNCHANGED <<isPaused, progressInterval, timers>>
      ]_vars

\* C17 (witness): a pause has just failed while the session is being polled:
\* the error is shown, the interval is live and the session is not paused.
C17_Witness ==
    /\ notification = [type |-> "error", msg |-> "erro ao pausar"]
    /\ progressInterval \in timers
    /\ ~isPaused

\* C18: after a reload that finds s1 paused, the restore arms no interval and
\* shows one informational message, and no resume ever leaves more than one
\* interval live.
C18_PausedRestoreThenResume ==
    [][ /\ \A r \in Outstanding :
             (MAS_checkSessionStatus_then(r) /\ r.res = "paused")
                => /\ UNCHANGED <<timers, progressInterval>>
                   /\ notification'.type = "info"
        /\ \A r \in Outstanding :
             MAS_resumeSession_then(r) => Cardinality(timers') <= 1
      ]_vars

C20_LocalDeleteOnlyOnGatewaySuccess ==
    [][ \A k \in Sessions :
          (savedSessions[k] # Absent /\ savedSessions'[k] = Absent)
             => \E r \in Outstanding :
                   /\ r.op = "M.delete" /\ r.sid = k /\ r.res = "ok"
                   /\ MAS_deleteSession_then(r)
      ]_vars

\* C21: when clearAllSessions succeeds, the local session store is empty (get
\* finds no snapshot under any id) and the last-active marker is absent.
C21_ClearEmptiesStore ==
    [][\A r \in Outstanding :
          (MAS_clearAllSessions_then(r) /\ r.res = "ok")
          => /\ \A k \in Keys : savedSessions'[k] = Absent
             /\ lsCurrentSessionId' = NULL]_vars

\* C22: when the bulk cleanup fails, the local session store, the session list
\* held in memory and the last-active marker are what they were, and the error
\* is shown to the user.
C22_FailedClearChangesNothing ==
    [][\A r \in Outstanding :
          (MAS_clearAllSessions_then(r)
             /\ (r.res \in {"err", "fail"} \/ (r.op = "M.clear2" /\ r.res = "http")))
          => /\ savedSessions' = savedSessions
             /\ lsAnalyses' = lsAnalyses
             /\ sessions' = sessions
             /\ lsCurrentSessionId' = lsCurrentSessionId
             /\ notification'.type = "error"]_vars

\* a bulk cleanup has just failed on a page that holds a snapshot, a listed
\* session and a marker
C22_Witness ==
    /\ notification = [type |-> "error", msg |-> "erro ao limpar sessoes"]
    /\ \E k \in Keys : savedSessions[k] # Absent /\ lsAnalyses[k] # Absent
    /\ sessions # {}
    /\ lsCurrentSessionId # NULL

\* the specification of the step gate: step 1 always, step k > 1 exactly when
\* every step before k is completed
CanResume(step, completed_steps) ==
    step = 1 \/ \A j \in 1..(step - 1) : j \in completed_steps

\* C23: canContinueFromStep is true for step 1 with any completed steps and for
\* step k in 2..3 exactly when every step 1..k-1 is completed; whenever a loaded
\* session is put on the step buttons, each button is enabled exactly when that
\* holds of the completed steps of the answer.
C23_StepGate ==
    [][\A r \in Outstanding :
          (selectSession_then(r) /\ r.res = "ok")
          => \A k \in Steps :
                /\ canContinueFromStep(k, r.steps) <=> CanResume(k, r.steps)
                /\ stepDisabled'[k] <=> ~CanResume(k, r.steps)]_vars

\* the session with steps {2} completed has been put on the buttons: step 1 is
\* open, steps 2 and 3 are locked
C23_Witness ==
    /\ notification = [type |-> "success", msg |-> "sessao selecionada"]
    /\ selectedSessionId # NULL
    /\ srvSteps[selectedSessionId] = {2}
    /\ stepDisabled = [k \in Steps |-> k # 1]

\* C24: selectStep(step) is refused with a warning, and selectedStep keeps its
\* value, whenever no session is selected or the gate is closed for step with
\* the completed steps of the selected session.
C24_SelectStepRejected ==
    [][\A k \in Steps :
          (selectStep(k)
             /\ (selectedSessionId = NULL
                   \/ ~CanResume(k, srvSteps[selectedSessionId])))
          => /\ selectedStep' = selectedStep
             /\ notification'.type = "warning"]_vars

\* the statuses the data model allows for a snapshot
SnapshotStatuses == {"initiated", "running", "paused", "completed", "error", "saved"}

\* C25: every snapshot in the local session store has one of the statuses
\* initiated, running, paused, completed, error, saved.
C25_SnapshotStatus ==
    \A k \in Keys :
       getSession(k) # Absent => getSession(k).status \in SnapshotStatuses

\* C26: while a session is running, the progress displayed for it never goes
\* below the last value the server confirmed for it; in particular, when the
\* display shows a value fetched for the running current session, the answer
\* of a poll does not lower it.
C26_DisplayNeverRegresses ==
    [][\A r \in Outstanding :
          (MAS_tick_then(r) /\ progressFill.of = r.sid /\ currentSessionId = r.sid
                            /\ srv[r.sid] = "running" /\ srv'[r.sid] = "running")
          => progressFill'.pct >= progressFill.pct]_vars

\* C27: a snapshot in the local session store stays in it until the user
\* deletes that id or everything is cleared: the Map loses an entry only by
\* deleteAnalysis of that id, or at a reload when a bulk clear had emptied the
\* copy in localStorage (or localStorage cannot be read); the copy in a readable
\* localStorage loses an entry only by deleteAnalysis of that id or by a bulk
\* clear.
C27_SnapshotStaysUntilDeleted ==
    [][\A k \in Keys :
          /\ (savedSessions[k] # Absent /\ savedSessions'[k] = Absent)
             => \/ deleteAnalysis(k)
                \/ Reload /\ lsAnalyses[k] = Absent
                \/ Reload /\ storage # "ok"
          /\ (storage = "ok" /\ lsAnalyses[k] # Absent /\ lsAnalyses'[k] = Absent)
             => \/ deleteAnalysis(k)
                \/ \E r \in Outstanding : MAS_clearAllSessions_then(r) /\ r.res = "ok"]_vars

\* both analyses are in the store, polled, auto-saved and reloaded, none deleted
C27_Witness ==
    /\ \A s \in Sessions : savedSessions[s] # Absent /\ lsAnalyses[s] # Absent
    /\ currentAnalysisId = NULL
    /\ \E s \in Sessions : savedSessions[s].status = "in_progress"

\* C28: a localStorage that is corrupt or cannot be accessed when the store is
\* loaded raises nothing: the store starts empty, the condition is logged, and
\* the store operations that follow work (a put is found by get, a delete
\* removes the entry).
C28_CorruptStorageDegrades ==
    [][/\ (Reload /\ storage # "ok")
          => /\ \A k \in Keys : savedSessions'[k] = Absent
             /\ consoleError' # NULL
       /\ \A r \in Outstanding :
             (startAnalysis_then(r) /\ r.res = "ok" /\ storage # "ok")
             => savedSessions'[r.sid] = Snapshot("running", 0, NULL, r.ctx)
       /\ \A k \in Sessions :
             (deleteAnalysis(k) /\ storage # "ok") => savedSessions'[k] = Absent]_vars

\* localStorage holds a snapshot of s1 and cannot be read: the store was loaded
\* empty, and the analysis s2 submitted afterwards is in it
C28_Witness ==
    /\ storage \in {"corrupt", "unavailable"}
    /\ lsAnalyses["s1"] # Absent
    /\ savedSessions["s1"] = Absent
    /\ savedSessions["s2"] # Absent

\* C29: the store holds one snapshot per id and the last write wins: after a
\* put under id k, get(k) is the data of that put and the snapshots under the
\* other ids are what they were.
C29_LastWriteWins ==
    [][/\ \A r \in Outstanding :
             (startAnalysis_then(r) /\ r.res = "ok")
             => /\ savedSessions'[r.sid] = Snapshot("running", 0, NULL, r.ctx)
                /\ \A j \in Keys \ {r.sid} : savedSessions'[j] = savedSessions[j]
       /\ \A r \in Outstanding :
             (pollProgress_then(r) /\ r.res \in {"ok", "done"})
             => /\ savedSessions'[currentAnalysisId] =
                      Snapshot(IF r.res = "done" THEN "completed" ELSE "running",
                               r.pct, ResultsOf(r.sid, r.res), form)
                /\ \A j \in Keys \ {currentAnalysisId} :
                      savedSessions'[j] = savedSessions[j]
       /\ autoSaveTick
             => /\ savedSessions'[currentAnalysisId] =
                      Snapshot("in_progress", progressBar.pct, NULL, form)
                /\ \A j \in Keys \ {currentAnalysisId} :
                      savedSessions'[j] = savedSessions[j]]_vars

\* the snapshot of s2 written at submit has been overwritten by the auto-save
\* while the snapshot of s1 is the one of its completion
C29_Witness ==
    /\ savedSessions["s2"].status = "in_progress"
    /\ savedSessions["s1"].status = "completed"
    /\ savedSessions["s1"].results = "s1"

\* C30: every failure of a session operation produces one notification with a
\* severity: whenever a handler of ModernAnalysisSystem receives a failed
\* answer (a rejected fetch, or a body that reports an error) to a submit, a
\* status check, a poll, a pause, a resume or a continue, the step shows a
\* notification.
C30_NoSilentFailure ==
    [][\A r \in Outstanding :
          (/\ r.res \in {"fail", "err"}
           /\ \/ MAS_startAnalysis_then(r)
              \/ MAS_checkSessionStatus_then(r)
              \/ MAS_tick_then(r)
              \/ MAS_pauseSession_then(r)
              \/ MAS_resumeSession_then(r)
              \/ MAS_continueSession_then(r))
          => notification'.type \in {"info", "success", "warning", "error"}]_vars

\* C31: when the gateway refuses to continue from a step (the can-continue check
\* fails or answers can_continue false), the error is shown and no local state
\* changes: the current session id, the selected session and the selected step
\* are what they were, and no step is started.
C31_RefusedContinueChangesNothing ==
    [][\A r \in Outstanding :
          (continueFromStep_then(r) /\ r.res # "ok")
          => /\ notification'.type = "error"
             /\ UNCHANGED <<smCurrentSessionId, selectedSessionId, selectedStep,
                            stepStarted, form>>
             /\ net' = Settle(r)]_vars

\* the gateway has just refused step 3 of a selected session that had step 3
\* selected; an earlier continue had made another session the current one
C31_Witness ==
    /\ notification = [type |-> "error", msg |-> "erro ao continuar"]
    /\ selectedSessionId # NULL
    /\ selectedStep = 3
    /\ smCurrentSessionId \notin {NULL, selectedSessionId}

\* C36: continueFromStep starts a step for a session only if selectStep accepted
\* that step while that session was the selected one: whenever a step is
\* started, the session it is started for is the session that was selected when
\* the step was chosen.
C36_StepNotCarriedOver ==
    [][\A r \in Outstanding :
          loadSessionDataToForm_then(r) => stepStarted'.sid = stepChosenFor]_vars

\* C32: starting the poller issues a status check at once and only then
\* schedules the repeating checks: a step that arms the 3-second interval of
\* ModernAnalysisSystem leaves a status check for the current session
\* outstanding.
C32_ImmediateCheckOnStart ==
    [][(timers' \ timers # {})
         => \E q \in DOMAIN net' : q.op = "M.progress" /\ q.sid = currentSessionId']_vars

\* C33: stopProgressMonitoring is idempotent.  Every handler that calls it
\* leaves no handle stored, and a handler that calls it when no handle is
\* stored (no poller was started, or a stop came just before) leaves the
\* handle and the set of live intervals as they were and logs no error.
StopCalled(r) ==
    \/ MAS_tick_then(r) /\ r.res \in {"done", "err"}
    \/ MAS_pauseSession_then(r) /\ r.res = "ok"

C33_StopIdempotent ==
    [][\A r \in Outstanding :
          StopCalled(r) =>
              /\ progressInterval' = NoTimer
              /\ consoleError' = NULL
              /\ progressInterval = NoTimer => timers' = timers]_vars

\* Two completion answers of one session were handled: the second handler
\* called stop after the first had already stopped the poller, with another
\* interval still live.
C33_Witness ==
    /\ \E s \in Sessions : completedShown[s] = 2
    /\ progressInterval = NoTimer
    /\ timers # {}

\* C38: while the isPaused flag of ModernAnalysisSystem is set, no polling
\* interval is live.
C38_PausedMeansNoPoller == isPaused => timers = {}

\* C34: every snapshot persisted under a session id carries data obtained for
\* that session: the results stored under id k, when there are any, are the
\* results the backend produced for k.
C34_SnapshotBelongsToKey ==
    \A k \in Keys :
        (savedSessions[k] # Absent /\ savedSessions[k].results # NULL)
            => savedSessions[k].results = k

\* C35: a completed snapshot is never downgraded.  Once the snapshot persisted
\* under an id has status completed, no step of the tracker persists under
\* that id a snapshot with another status or with a lower progress.
C35_CompletedIsFinal ==
    [][\A k \in Keys :
          (savedSessions[k].status = "completed" /\ savedSessions'[k] # Absent)
              => /\ savedSessions'[k].status = "completed"
                 /\ savedSessions'[k].progress >= savedSessions[k].progress]_vars

\* C39: the durable registry (localStorage arqv30_analyses) and the registry
\* held in memory (savedSessions) hold snapshots under the same session ids,
\* after every operation of the store and after a bulk clear.
C39_RegistriesAgree ==
    {k \in Keys : lsAnalyses[k] # Absent} = {k \in Keys : savedSessions[k] # Absent}

\* C40: deleting the session that is being polled, or clearing all sessions
\* while one is being polled, stops its polling: when the handler of a
\* successful delete of the current session, or of a successful bulk clear,
\* has run, no polling interval is live.
C40_DeleteStopsPolling ==
    [][\A r \in Outstanding :
          (/\ timers # {}
           /\ r.res = "ok"
           /\ \/ MAS_deleteSession_then(r) /\ r.sid = currentSessionId
              \/ MAS_clearAllSessions_then(r) /\ currentSessionId # NULL)
          => timers' = {}]_vars

\* C37: if from some point on the backend reports the active session as
\* completed and no status request fails, then under fair scheduling of the
\* intervals and the responses polling ends: from some point on no polling
\* interval is live.
ActiveCompleted == currentSessionId # NULL /\ srv[currentSessionId] = "completed"
StatusRequestsSucceed == \A q \in Outstanding : q.op = "M.progress" => q.res # "fail"

C37_PollingEnds ==
    (<>[]ActiveCompleted /\ []StatusRequestsSucceed) => <>[](timers = {})

====
